---- MODULE Spec2Model ----
(***************************************************************************)
(* Session registry of the sessioned MCP server (mcp-server/index.js).     *)
(* The server keeps a Map from session identifier to a transport object;   *)
(* POST /mcp creates or reuses a session, GET /mcp reuses one, DELETE /mcp  *)
(* closes one.  Each handler is an async function: it runs synchronously   *)
(* up to an await, and other requests run while it is suspended.  One     *)
(* action of the model is one such synchronous segment.  The suspended    *)
(* invocations form a bag (they have no identity beyond their locals);     *)
(* the exchange that ended last is kept in `answered` until the client      *)
(* has taken the response.  (Specification Spec.)                           *)
(*                                                                         *)
(* The get_day_context handlers (the tool of the MCP servers and the POST   *)
(* handler of the raw JSON server) are modelled beside it: a call is        *)
(* validated, issues its axios.get and suspends; when the GET settles the   *)
(* handler builds its answer.  (Specification SpecTool.)                    *)
(***************************************************************************)
EXTENDS Integers, FiniteSets, Sequences, Bags, TLC

\* ------------------------------------------------------------------ bounds
MaxPending == 2   \* handler invocations that can be suspended at an await at once
MaxIds == 2       \* identifiers randomUUID hands out during one run

IDs == 1..MaxIds

\* ------------------------------------------------------------------ values
\* req.headers["mcp-session-id"] when the header is absent (undefined)
NoHeader == 0
Headers == IDs \cup {NoHeader}

\* `let transport;` before any assignment
NoTransport == 0

\* req.body.method: the handlers compare it with "initialize" only, so one other method
\* stands for all the others (tools/list, ping, notifications/initialized, ...)
Methods == {"initialize", "tools/call"}

\* A day in the YYYY-MM-DD form and one that is not in it
GoodDay == <<"2", "0", "2", "4", "-", "0", "1", "-", "1", "5">>
BadDay == <<"1", "5", ".", "0", "1", ".", "2", "0", "2", "4">>

Digit == {"0", "1", "2", "3", "4", "5", "6", "7", "8", "9"}

\* Variant: the pattern is not anchored at the end
DayMatchesUnanchored(day) ==
    /\ Len(day) >= 10
    /\ \A i \in {1, 2, 3, 4, 6, 7, 9, 10} : day[i] \in Digit
    /\ day[5] = "-"
    /\ day[8] = "-"

\* /^\d{4}-\d{2}-\d{2}$/.test(day), day a sequence of characters
DayMatches(day) ==
    /\ Len(day) = 10
    /\ \A i \in {1, 2, 3, 4, 6, 7, 9, 10} : day[i] \in Digit
    /\ day[5] = "-"
    /\ day[8] = "-"

\* ------------------------------------------------------------------ JSON values
\* What express.json() and axios hand the handlers: a value carries its type tag.
\* A number is whole + tenths/10 (1.5 is Num(1, 5)); a string is the sequence of its
\* pieces (a day is cut into characters, a message is one piece).
Undefined == [t |-> "undefined"]
Null == [t |-> "null"]
Num(whole, tenths) == [t |-> "number", whole |-> whole, tenths |-> tenths]
Str(chars) == [t |-> "string", chars |-> chars]
Member(key, value) == [key |-> key, value |-> value]
Obj(members) == [t |-> "object", members |-> members]

\* typeof v
TypeOf(v) == IF v.t = "null" THEN "object" ELSE v.t

\* !v is false
ToBoolean(v) ==
    /\ v.t \notin {"undefined", "null"}
    /\ v # Str(<<>>)
    /\ v # Num(0, 0)

\* a ?? b
Coalesce(a, b) == IF a.t \in {"undefined", "null"} THEN b ELSE a

\* v?.key, v.key on a value that has no such member
Get(v, key) ==
    IF v.t = "object" /\ \E i \in DOMAIN v.members : v.members[i].key = key
    THEN v.members[CHOOSE i \in DOMAIN v.members : v.members[i].key = key].value
    ELSE Undefined

\* `${n}` for a number n
NumberText(v) ==
    IF v.tenths = 0 THEN ToString(v.whole)
    ELSE ToString(v.whole) \o "." \o ToString(v.tenths)

\* JSON.stringify(v), as the sequence of the text's pieces.  A member whose value is
\* undefined is left out.  (No string of the model holds a character that JSON escapes.)
RECURSIVE JSONstringify(_), StringifyMembers(_)
StringifyMembers(ms) ==
    IF ms = <<>> THEN <<>>
    ELSE LET m == Head(ms)
             rest == StringifyMembers(Tail(ms))
             this == <<"\"", m.key, "\"", ":">> \o JSONstringify(m.value)
         IN  IF m.value.t = "undefined" THEN rest
             ELSE IF rest = <<>> THEN this
             ELSE this \o <<",">> \o rest

JSONstringify(v) ==
    CASE v.t = "null" -> <<"null">>
      [] v.t = "number" -> <<NumberText(v)>>
      [] v.t = "string" -> <<"\"">> \o v.chars \o <<"\"">>
      [] v.t = "object" -> <<"{">> \o StringifyMembers(v.members) \o <<"}">>
      [] OTHER -> <<>>

\* ------------------------------------------------------------------ tool input
\* the arguments object of a get_day_context call; a member that is absent is Undefined
Input(user_id, day) == [t |-> "object", user_id |-> user_id, day |-> day]
NoArgs == Input(Undefined, Undefined)
ToolArgs == {Input(Num(1, 0), Str(GoodDay))}

\* z.number().int()
ZNumberInt(v) == TypeOf(v) = "number" /\ v.tenths = 0

\* z.string().regex(/^\d{4}-\d{2}-\d{2}$/)
ZStringRegex(v) == TypeOf(v) = "string" /\ DayMatches(v.chars)

\* the tool's input schema: user_id an integer, day a string matching the pattern
ValidArgs(args) == ZNumberInt(args.user_id) /\ ZStringRegex(args.day)

\* Frames a client can put in the body of a POST
Frames ==
    {[method |-> m, args |-> NoArgs] : m \in Methods \ {"tools/call"}}
        \cup {[method |-> "tools/call", args |-> a] : a \in ToolArgs}

\* ------------------------------------------------------------------ responses
Pending == [status |-> 0, code |-> 0, message |-> "pending"]
NoSessionError ==
    [status |-> 400, code |-> -32000, message |-> "No session. Send initialize first."]
SessionNotFoundError ==
    [status |-> 400, code |-> -32000, message |-> "Session not found"]
InternalError ==
    [status |-> 500, code |-> -32603, message |-> "Internal server error"]
InvalidSessionError ==
    [status |-> 400, code |-> -32000, message |-> "Invalid or missing session"]
NoContent == [status |-> 204, code |-> 0, message |-> ""]
HealthOk == [status |-> 200, code |-> 0, message |-> "ok"]
\* the response was written by transport.handleRequest
ByTransport == [status |-> 200, code |-> 0, message |-> "transport"]
\* the handler's promise rejected and nothing wrote a response
Unhandled == [status |-> 0, code |-> 0, message |-> "unhandled rejection"]

\* ------------------------------------------------------------------ state
VARIABLES
    transports,   \* the Map: session identifier -> transport
    tobj,         \* the transport objects constructed so far, in order of construction
    issued,       \* identifiers randomUUID has returned
    removed,      \* identifiers transports.delete has removed (history)
    failed,       \* identifiers whose mcp.connect rejected (history)
    pending,      \* bag of handler invocations suspended at an await
    answered,     \* the exchange that has just ended, or NoExchange
    calls,        \* bag of get_day_context handlers suspended at await axios.get
    result        \* the get_day_context call that has just ended, or NoCall

vars == <<transports, tobj, issued, removed, failed, pending, answered, calls, result>>

\* ------------------------------------------------------------------ the Map
EmptyMap == [k \in {} |-> NoTransport]
MapHas(m, k) == k \in DOMAIN m
MapGet(m, k) == m[k]
MapSet(m, k, v) == [x \in (DOMAIN m) \cup {k} |-> IF x = k THEN v ELSE m[x]]
MapDelete(m, k) == [x \in (DOMAIN m) \ {k} |-> m[x]]

\* ------------------------------------------------------------------ requests
\* A handler invocation: the request (verb, sid, method, args), the handler's locals
\* (transport, newSessionId), where it stands (pc; once done, `at` is where it ended),
\* the response (resp), and what the tool handler did for it (gets: backend GETs
\* issued, out: how far the GET got).
NoExchange ==
    [pc |-> "idle", at |-> "none", verb |-> "none", sid |-> NoHeader, method |-> "none",
     args |-> NoArgs, transport |-> NoTransport, newSessionId |-> NoHeader,
     resp |-> Pending, gets |-> 0, out |-> "none"]

Request(verb, sid, method, args) ==
    [NoExchange EXCEPT !.pc = "entry", !.verb = verb, !.sid = sid,
                       !.method = method, !.args = args]

\* The client takes a response before the next thing happens; a handler can suspend
\* while fewer than MaxPending are suspended.
Quiet == answered = NoExchange
CanSuspend == BagCardinality(pending) < MaxPending

Suspend(r) == pending (+) SetToBag({r})
Resume(r) == pending (-) SetToBag({r})
Suspended == BagToSet(pending)

Answer(r, resp) == [r EXCEPT !.pc = "done", !.at = r.pc, !.resp = resp]

\* `sessionId &&` / `!sessionId`: an absent header is falsy
Truthy(sid) == sid # NoHeader

\* Variant: the transport is built without a session identifier generator
NewTransportStateless(id) == [sid |-> NoHeader, closeCalls |-> 0]

\* new StreamableHTTPServerTransport({sessionIdGenerator: () => newSessionId}); the
\* record also stands for the McpServer that createMcpServer() builds for it alone
NewTransport(id) == [sid |-> id, closeCalls |-> 0]

\* closeCalls counts 0, 1, and 2 for "twice or more"
CountClose(n) == IF n < 2 THEN n + 1 ELSE n

\* handleRequest calls on transport t that have started and not yet settled
InFlight(t) ==
    LET H == {r \in Suspended : r.pc = "handling" /\ r.transport = t}
    IN  BagCardinality([r \in H |-> pending[r]])

\* ------------------------------------------------------------------ backend calls
\* The servers that expose get_day_context: the sessioned MCP server (index.js), the
\* stateless MCP server, and the raw JSON server
McpVariants == {"sessioned", "stateless"}
Variants == McpVariants \cup {"raw"}

GetDayContext == Str(<<"get_day_context">>)

\* What axios.get(url) settles with.  ok: the promise resolves with a response.
\* Otherwise it rejects with an error e: e.response is set when the backend answered
\* with a status outside 2xx, e.request when the request was sent, e.message always.
HttpResponse(status, data) == [t |-> "response", status |-> Num(status, 0), data |-> data]
Settled(ok, response, request, message) ==
    [ok |-> ok, response |-> response, request |-> request, message |-> message]
NoReply == Settled(FALSE, Undefined, FALSE, Undefined)

\* res / the tool's return value, before anything is written
NoResp == [kind |-> "none"]

\* A get_day_context call: the server it arrived at, what it carried (the arguments
\* of the tools/call, or req.body of the raw server), the url of its axios.get, the
\* number of axios.get calls made for it, what axios.get settled with, the response.
NoCall ==
    [variant |-> "none", pc |-> "idle", request |-> Undefined, url |-> <<>>, gets |-> 0,
     reply |-> NoReply, resp |-> NoResp]

Idle == result = NoCall
CanCall == BagCardinality(calls) < MaxPending
InCall == BagToSet(calls)

Init ==
    /\ calls = EmptyBag
    /\ result = NoCall
    /\ transports = EmptyMap
    /\ tobj = <<>>
    /\ issued = {}
    /\ removed = {}
    /\ failed = {}
    /\ pending = EmptyBag
    /\ answered = NoExchange

\* ------------------------------------------------------------------ POST /mcp
\* Variant: the identifier is derived from the size of the map
randomUUIDFromSize == {Cardinality(DOMAIN transports) + 1} \cap IDs

\* const newSessionId = randomUUID(): the values the call can return.  A version-4
\* UUID is 122 random bits: the model takes it never to repeat a value, and, the
\* identifiers being opaque and interchangeable, to return the lowest unused one.
randomUUID == {id \in IDs \ issued : \A other \in IDs \ issued : id <= other}

\* Variant: the create branch forgets to test the method
PostRouteAnyMethod(sid, method) ==
    IF Truthy(sid) /\ MapHas(transports, sid) THEN "reuse"
    ELSE IF ~Truthy(sid) THEN "create"
    ELSE "notFound"

\* Variant: the create branch forgets to test that no identifier was sent
PostRouteAnyHeader(sid, method) ==
    IF Truthy(sid) /\ MapHas(transports, sid) THEN "reuse"
    ELSE IF method = "initialize" THEN "create"
    ELSE IF ~Truthy(sid) THEN "noSession"
    ELSE "notFound"

\* The if / else-if chain of the POST handler, in the code's order
PostRoute(sid, method) ==
    IF Truthy(sid) /\ MapHas(transports, sid) THEN "reuse"
    ELSE IF ~Truthy(sid) /\ method = "initialize" THEN "create"
    ELSE IF ~Truthy(sid) THEN "noSession"
    ELSE "notFound"

\* Variant: the lookup returns the first transport of the map, whatever the key
LookupFirst(sid) == MapGet(transports, CHOOSE k \in DOMAIN transports : TRUE)

\* Variant: the lookup returns the transport of the highest key, whatever the key
LookupLast(sid) ==
    MapGet(transports, CHOOSE k \in DOMAIN transports : \A j \in DOMAIN transports : j <= k)

\* transport = transports.get(sessionId)
Lookup(sid) == MapGet(transports, sid)

\* Variant: the map is replaced by one that holds the new entry only
RegisterReplacing(m, id, t) == [x \in {id} |-> t]

\* Variant: every key of the map is bound to the new transport
RegisterRebinding(m, id, t) == [x \in (DOMAIN m) \cup {id} |-> t]

\* transports.set(newSessionId, transport)
Register(m, id, t) == MapSet(m, id, t)

\* What the transport does with a frame handed to handleRequest: a tools/call with
\* arguments that pass the schema, on a transport that nobody has closed, runs the
\* tool handler; every other frame is answered by the transport itself.
ToolDue(o, method, args) ==
    /\ method = "tools/call"
    /\ ValidArgs(args)
    /\ o.closeCalls = 0

\* await transport.handleRequest(req, res, req.body): the call starts here.  When the
\* frame runs the tool, the handler issues its axios.get in the same turn.
Dispatch(r, o) ==
    IF ToolDue(o, r.method, r.args)
    THEN [r EXCEPT !.pc = "handling", !.gets = @ + 1, !.out = "sent"]
    ELSE [r EXCEPT !.pc = "handling"]

PostMcp(sid, frame) ==
    /\ Quiet
    /\ LET r == Request("POST", sid, frame.method, frame.args)
           route == PostRoute(sid, frame.method)
       IN  CASE route = "reuse" ->
                  LET t == Lookup(sid) IN
                  /\ CanSuspend
                  /\ pending' = Suspend(Dispatch([r EXCEPT !.transport = t], tobj[t]))
                  /\ UNCHANGED <<calls, result, failed, transports, tobj, issued, removed, answered>>
             [] route = "create" ->
                  \E id \in randomUUID :
                      /\ CanSuspend
                      /\ issued' = issued \cup {id}
                      /\ tobj' = Append(tobj, NewTransport(id))
                      /\ pending' = Suspend([r EXCEPT !.newSessionId = id,
                                                      !.transport = Len(tobj) + 1,
                                                      !.pc = "connecting"])
                      /\ UNCHANGED <<calls, result, failed, transports, removed, answered>>
             [] route = "noSession" ->
                  /\ answered' = Answer(r, NoSessionError)
                  /\ UNCHANGED <<calls, result, failed, transports, tobj, issued, removed, pending>>
             [] OTHER ->
                  /\ answered' = Answer(r, SessionNotFoundError)
                  /\ UNCHANGED <<calls, result, failed, transports, tobj, issued, removed, pending>>

\* await mcp.connect(transport) resolves; the handler registers the session and
\* starts handleRequest in the same turn
ConnectDone(r) ==
    /\ Quiet
    /\ r \in Suspended /\ r.pc = "connecting"
    /\ transports' = Register(transports, r.newSessionId, r.transport)
    /\ pending' = Resume(r) (+) SetToBag({Dispatch(r, tobj[r.transport])})
    /\ UNCHANGED <<calls, result, failed, tobj, issued, removed, answered>>

\* await mcp.connect(transport) rejects: the catch block answers 500
ConnectFault(r) ==
    /\ Quiet
    /\ r \in Suspended /\ r.pc = "connecting"
    /\ pending' = Resume(r)
    /\ answered' = Answer(r, InternalError)
    /\ failed' = failed \cup {r.newSessionId}
    /\ UNCHANGED <<calls, result, transports, tobj, issued, removed>>

\* ------------------------------------------------------------------ handleRequest ends
\* await transport.handleRequest(...) resolves: the transport has answered; when the
\* frame ran the tool, its axios.get has settled and the handler has returned.
HandleDone(r) ==
    /\ Quiet
    /\ r \in Suspended /\ r.pc = "handling"
    /\ pending' = Resume(r)
    /\ answered' = Answer([r EXCEPT !.out = IF @ = "sent" THEN "settled" ELSE @], ByTransport)
    /\ UNCHANGED <<calls, result, failed, transports, tobj, issued, removed>>

\* await transport.handleRequest(...) rejects.  POST: the catch block answers 500
\* unless the transport had already sent the headers.  GET: no try/catch.
HandleFault(r, headersSent) ==
    /\ Quiet
    /\ r \in Suspended /\ r.pc = "handling"
    /\ pending' = Resume(r)
    /\ answered' = Answer(r, IF r.verb = "GET" THEN Unhandled
                             ELSE IF headersSent THEN ByTransport
                             ELSE InternalError)
    /\ UNCHANGED <<calls, result, failed, transports, tobj, issued, removed>>

\* ------------------------------------------------------------------ GET /mcp
\* Variant: every GET is refused
GetRouteRejectAll(sid) == "invalid"

GetRoute(sid) ==
    IF ~Truthy(sid) \/ ~MapHas(transports, sid) THEN "invalid" ELSE "reuse"

GetMcp(sid) ==
    /\ Quiet
    /\ LET r == Request("GET", sid, "none", NoArgs)
       IN  IF GetRoute(sid) = "invalid"
           THEN /\ answered' = Answer(r, InvalidSessionError)
                /\ UNCHANGED <<calls, result, failed, transports, tobj, issued, removed, pending>>
           ELSE LET t == Lookup(sid) IN
                /\ CanSuspend
                /\ pending' = Suspend(Dispatch([r EXCEPT !.transport = t], tobj[t]))
                /\ UNCHANGED <<calls, result, failed, transports, tobj, issued, removed, answered>>

\* ------------------------------------------------------------------ DELETE /mcp
DeleteRoute(sid) ==
    IF Truthy(sid) /\ MapHas(transports, sid) THEN "close" ELSE "skip"

\* Variant: the mapping is not removed
UnregisterNothing(m, sid) == m

\* Variant: the map is cleared
UnregisterAll(m, sid) == EmptyMap

\* transports.delete(sessionId)
Unregister(m, sid) == MapDelete(m, sid)

DeleteMcp(sid) ==
    /\ Quiet
    /\ LET r == Request("DELETE", sid, "none", NoArgs)
       IN  IF DeleteRoute(sid) = "close"
           THEN LET t == Lookup(sid) IN
                /\ CanSuspend
                /\ tobj' = [tobj EXCEPT ![t].closeCalls = CountClose(@)]
                /\ pending' = Suspend([r EXCEPT !.transport = t, !.pc = "closing"])
                /\ UNCHANGED <<calls, result, failed, transports, issued, removed, answered>>
           ELSE /\ answered' = Answer(r, NoContent)
                /\ UNCHANGED <<calls, result, failed, transports, tobj, issued, removed, pending>>

\* await transport.close() resolves: delete the mapping, answer 204
CloseDone(r) ==
    /\ Quiet
    /\ r \in Suspended /\ r.pc = "closing"
    /\ transports' = Unregister(transports, r.sid)
    /\ removed' = removed \cup {r.sid}
    /\ pending' = Resume(r)
    /\ answered' = Answer(r, NoContent)
    /\ UNCHANGED <<calls, result, failed, tobj, issued>>

\* await transport.close() rejects: no try/catch, nothing is deleted or answered
CloseFault(r) ==
    /\ Quiet
    /\ r \in Suspended /\ r.pc = "closing"
    /\ pending' = Resume(r)
    /\ answered' = Answer(r, Unhandled)
    /\ UNCHANGED <<calls, result, failed, transports, tobj, issued, removed>>

\* ------------------------------------------------------------------ GET /health
Health ==
    /\ Quiet
    /\ answered' = Answer(Request("HEALTH", NoHeader, "none", NoArgs), HealthOk)
    /\ UNCHANGED <<calls, result, failed, transports, tobj, issued, removed, pending>>

\* The exchange is over: the client has its response (or has given up on one)
Retire ==
    /\ ~Quiet
    /\ answered' = NoExchange
    /\ UNCHANGED <<calls, result, failed, transports, tobj, issued, removed, pending>>

Next ==
    \/ \E sid \in Headers, frame \in Frames : PostMcp(sid, frame)
    \/ \E r \in Suspended : ConnectDone(r)
    \/ \E r \in Suspended : ConnectFault(r)
    \/ \E r \in Suspended : HandleDone(r)
    \/ \E r \in Suspended, headersSent \in BOOLEAN : HandleFault(r, headersSent)
    \/ \E sid \in Headers : GetMcp(sid)
    \/ \E sid \in Headers : DeleteMcp(sid)
    \/ \E r \in Suspended : CloseDone(r)
    \/ \E r \in Suspended : CloseFault(r)
    \/ Health
    \/ Retire

Spec == Init /\ [][Next]_vars

\* ------------------------------------------------------------------ get_day_context
\* Values a client can send as user_id and as day
LongDay == GoodDay \o <<"0">>
UserIds == {Num(1, 0), Num(2, 0), Num(1, 5), Str(<<"1">>), Undefined}
Days == {Str(GoodDay), Str(BadDay), Str(LongDay), Num(20240115, 0), Undefined}
Inputs == {Input(u, d) : u \in UserIds, d \in Days}

\* Variant: the url names user 1 whoever the call is for
BackendUrlFixedUser(user_id, day) == <<"/day/", "1", "/">> \o day.chars

\* `${BACKEND_BASE_URL}/day/${user_id}/${day}`, as the pieces after the base
BackendUrl(user_id, day) == <<"/day/", NumberText(user_id), "/">> \o day.chars

\* Variant: the GET is sent again when the first attempt fails
AxiosGetWithRetry(c, url) == [c EXCEPT !.pc = "awaiting", !.url = url, !.gets = @ + 2]

\* await axios.get(url, { headers }): one GET is sent and the handler suspends
AxiosGet(c, url) == [c EXCEPT !.pc = "awaiting", !.url = url, !.gets = @ + 1]

\* The body the backend returns for a url: the day summary of the user and the date
\* the url names
Calories == {0, 1850}
DaySummary(url, kcal) ==
    Obj(<<Member("user_id", Str(<<url[2]>>)),
          Member("date", Str(SubSeq(url, 4, Len(url)))),
          Member("total_calories", Num(kcal, 0)),
          Member("meals", Null)>>)

\* What the GET of a url can settle with: the backend's body, a backend status outside
\* 2xx (with a `detail` body, a `message` body or an empty body), no response at all,
\* or an error before the request was sent
Settles(url) ==
    {Settled(TRUE, HttpResponse(200, DaySummary(url, kcal)), TRUE, Undefined) : kcal \in Calories}
      \cup
    {Settled(FALSE, HttpResponse(404, Obj(<<Member("detail", Str(<<"User not found">>))>>)),
             TRUE, Str(<<"Request failed with status code 404">>)),
     Settled(FALSE, HttpResponse(503, Obj(<<Member("message", Str(<<"maintenance">>))>>)),
             TRUE, Str(<<"Request failed with status code 503">>)),
     Settled(FALSE, HttpResponse(500, Str(<<>>)),
             TRUE, Str(<<"Request failed with status code 500">>)),
     Settled(FALSE, Undefined, TRUE, Str(<<"connect ECONNREFUSED">>)),
     Settled(FALSE, Undefined, FALSE, Str(<<"Invalid URL">>))}

\* ------------------------------------------------------------------ the MCP tool
\* { content: [{ type: "text", text }] }
TextContent(text) == [kind |-> "result", content |-> <<[type |-> "text", text |-> text]>>]

\* The arguments fail the input schema: the McpServer answers the tools/call itself
InvalidParams == [kind |-> "error", code |-> -32602]

\* e?.response?.status, e?.response?.data
ResponseStatus(e) == IF e.response.t = "response" THEN e.response.status ELSE Undefined
ResponseData(e) == IF e.response.t = "response" THEN e.response.data ELSE Undefined

\* Variant: the descriptor never carries the backend's status
BackendRequestFailedStatusless(e) ==
    Obj(<<Member("error", Str(<<"backend_request_failed">>)),
          Member("status", Null),
          Member("details",
                 Coalesce(Coalesce(ResponseData(e), e.message), Str(<<"unknown">>)))>>)

\* The catch block of the tool handler
BackendRequestFailed(e) ==
    Obj(<<Member("error", Str(<<"backend_request_failed">>)),
          Member("status", Coalesce(ResponseStatus(e), Null)),
          Member("details",
                 Coalesce(Coalesce(ResponseData(e), e.message), Str(<<"unknown">>)))>>)

\* What the tool handler returns once axios.get has settled with e
ToolReturns(e) ==
    IF e.ok THEN TextContent(JSONstringify(e.response.data))
    ELSE TextContent(JSONstringify(BackendRequestFailed(e)))

\* A tools/call of get_day_context arrives at an MCP server: the McpServer checks the
\* arguments against the schema and runs the handler up to await axios.get
ToolsCall(variant, args) ==
    /\ Idle
    /\ LET c == [NoCall EXCEPT !.variant = variant, !.pc = "entry", !.request = args]
       IN  IF ValidArgs(args)
           THEN /\ CanCall
                /\ calls' = calls (+) SetToBag({AxiosGet(c, BackendUrl(args.user_id, args.day))})
                /\ UNCHANGED <<result, transports, tobj, issued, removed, failed, pending, answered>>
           ELSE /\ result' = [c EXCEPT !.pc = "done", !.resp = InvalidParams]
                /\ UNCHANGED <<calls, transports, tobj, issued, removed, failed, pending, answered>>

\* axios.get settles for a tool call: the handler returns
ToolSettles(c, e) ==
    /\ Idle
    /\ c \in InCall /\ c.variant \in McpVariants
    /\ calls' = calls (-) SetToBag({c})
    /\ result' = [c EXCEPT !.pc = "done", !.reply = e, !.resp = ToolReturns(e)]
    /\ UNCHANGED <<transports, tobj, issued, removed, failed, pending, answered>>

\* ------------------------------------------------------------------ the raw JSON server
\* req.body: nothing (no JSON body was parsed), or an object with tool and input
RawBody(tool, input) == [t |-> "object", tool |-> tool, input |-> input]
Tools == {Undefined, GetDayContext, Str(<<"other_tool">>)}
RawBodies == {Undefined} \cup {RawBody(tool, input) : tool \in Tools, input \in Inputs \cup {Undefined}}

\* res.status(status).json(json)
Json(status, json) == [kind |-> "http", status |-> status, json |-> json]
ErrorBody(error) == Obj(<<Member("error", Str(<<error>>))>>)
ErrorMessage(error, message) ==
    Obj(<<Member("error", Str(error)), Member("message", message)>>)

\* a || b
Or(a, b) == IF ToBoolean(a) THEN a ELSE b

\* The checks of the raw handler before the backend call, in the code's order
RawRoute(body) ==
    IF body.t = "undefined" THEN "fault"
    ELSE IF ~ToBoolean(body.tool) THEN "missingTool"
    ELSE IF body.tool # GetDayContext THEN "unknownTool"
    ELSE IF \/ ~ToBoolean(body.input)
            \/ TypeOf(body.input.user_id) # "number"
            \/ TypeOf(body.input.day) # "string" THEN "invalidInput"
    ELSE IF ~DayMatches(body.input.day.chars) THEN "invalidDate"
    ELSE "call"

\* Variant: every failure of the backend call is answered 500
RawReturnsFlat(e) ==
    IF e.ok THEN Json(200, Obj(<<Member("tool", GetDayContext),
                                  Member("output", e.response.data)>>))
    ELSE Json(500, ErrorMessage(<<"Internal server error">>, e.message))

\* What the raw handler answers once axios.get has settled with e
RawReturns(e) ==
    IF e.ok THEN Json(200, Obj(<<Member("tool", GetDayContext),
                                  Member("output", e.response.data)>>))
    ELSE IF e.response.t = "response"
    THEN Json(e.response.status.whole,
              ErrorMessage(<<"Backend error: ", NumberText(e.response.status)>>,
                           Or(Or(Get(e.response.data, "detail"),
                                 Get(e.response.data, "message")),
                              Str(<<"Unknown error">>))))
    ELSE IF e.request
    THEN Json(502, ErrorMessage(<<"Backend unreachable">>,
                                Str(<<"Could not connect to backend server">>)))
    ELSE Json(500, ErrorMessage(<<"Request setup error">>, e.message))

\* POST /mcp of the raw server, up to its response or to await axios.get
RawPost(body) ==
    /\ Idle
    /\ LET c == [NoCall EXCEPT !.variant = "raw", !.pc = "entry", !.request = body]
           route == RawRoute(body)
           Reject(resp) ==
               /\ result' = [c EXCEPT !.pc = "done", !.resp = resp]
               /\ UNCHANGED <<calls, transports, tobj, issued, removed, failed, pending, answered>>
       IN  CASE route = "fault" ->
                  Reject(Json(500, ErrorMessage(<<"Internal server error">>,
                      Str(<<"Cannot destructure property 'tool' of 'req.body'">>))))
             [] route = "missingTool" ->
                  Reject(Json(400, ErrorBody("Missing \"tool\" field in request body")))
             [] route = "unknownTool" ->
                  Reject(Json(400, ErrorBody("Unknown tool")))
             [] route = "invalidInput" ->
                  Reject(Json(400, ErrorBody("Invalid input")))
             [] route = "invalidDate" ->
                  Reject(Json(400, ErrorBody("Invalid date format. Expected YYYY-MM-DD")))
             [] OTHER ->
                  /\ CanCall
                  /\ calls' = calls (+) SetToBag({AxiosGet(c,
                                  BackendUrl(body.input.user_id, body.input.day))})
                  /\ UNCHANGED <<result, transports, tobj, issued, removed, failed, pending, answered>>

\* axios.get settles for a raw call: the handler answers
RawSettles(c, e) ==
    /\ Idle
    /\ c \in InCall /\ c.variant = "raw"
    /\ calls' = calls (-) SetToBag({c})
    /\ result' = [c EXCEPT !.pc = "done", !.reply = e, !.resp = RawReturns(e)]
    /\ UNCHANGED <<transports, tobj, issued, removed, failed, pending, answered>>

\* The caller has its result
Take ==
    /\ ~Idle
    /\ result' = NoCall
    /\ UNCHANGED <<calls, transports, tobj, issued, removed, failed, pending, answered>>

ToolNext ==
    \/ \E variant \in McpVariants, args \in Inputs : ToolsCall(variant, args)
    \/ \E c \in InCall : \E e \in Settles(c.url) : ToolSettles(c, e)
    \/ \E body \in RawBodies : RawPost(body)
    \/ \E c \in InCall : \E e \in Settles(c.url) : RawSettles(c, e)
    \/ Take

SpecTool == Init /\ [][ToolNext]_vars

\* ------------------------------------------------------------------ vocabulary
\* The handler invocations there are: the suspended ones and the one just answered
Exchanges == Suspended \cup ({answered} \ {NoExchange})

\* r is an initialize POST without a session identifier (it creates a session)
Creating(r) == r.verb = "POST" /\ r.sid = NoHeader /\ r.method = "initialize"

\* This step suspends a new copy of r (a handler reached an await in state r)
Added(r) == r \in BagToSet(pending') /\ CopiesIn(r, pending') > CopiesIn(r, pending)

\* The identifier a request in handleRequest stands for: the one it carried, or the
\* one it allocated
IdentifierOf(r) == IF Truthy(r.sid) THEN r.sid ELSE r.newSessionId

\* The identifiers allocated by requests still suspended at await mcp.connect
ConnectingIds == {r.newSessionId : r \in {q \in Suspended : q.pc = "connecting"}}

\* This step answers a request of this verb and header in its first segment
AnsweredAtEntry(verb, sid) ==
    /\ answered = NoExchange
    /\ answered'.pc = "done" /\ answered'.at = "entry"
    /\ answered'.verb = verb /\ answered'.sid = sid

\* The get_day_context calls there are: those waiting for the backend and the one
\* that has just ended
Calls == InCall \cup ({result} \ {NoCall})

\* c names the tool: a tools/call at an MCP server, or a raw request whose tool is
\* get_day_context
IsToolCall(c) ==
    \/ c.variant \in McpVariants
    \/ c.variant = "raw" /\ c.request.t = "object" /\ c.request.tool = GetDayContext

\* The arguments c carried (absent members are Undefined)
ArgsOf(c) ==
    IF c.variant \in McpVariants THEN c.request
    ELSE IF c.request.t = "object" /\ c.request.input.t = "object" THEN c.request.input
    ELSE NoArgs

\* c ended without reaching the backend, answered as a call with invalid arguments
RejectedAsInvalid(c) ==
    /\ c.pc = "done" /\ c.gets = 0 /\ c.url = <<>> /\ c.reply = NoReply
    /\ c.variant \in McpVariants => c.resp = InvalidParams
    /\ c.variant = "raw" =>
          /\ c.resp.kind = "http" /\ c.resp.status = 400
          /\ c.resp.json \in {ErrorBody("Invalid input"),
                              ErrorBody("Invalid date format. Expected YYYY-MM-DD")}

\* ------------------------------------------------------------------ claims
\* C1: a POST /mcp without mcp-session-id whose method is not "initialize" is answered
\* with the NoSession error in its first segment, in every state of the registry: no
\* such request is ever suspended, the step that answers it leaves the map, the
\* transports, the issued identifiers and the suspended requests as they were, no
\* transport is handed the frame and no backend GET is issued for it.
C1_NoSessionRejected ==
    [][ /\ \A r \in BagToSet(pending') :
              ~(r.verb = "POST" /\ r.sid = NoHeader /\ r.method # "initialize")
        /\ (answered'.verb = "POST" /\ answered'.sid = NoHeader
                /\ answered'.method # "initialize")
             => /\ answered'.at = "entry"
                /\ answered'.resp = NoSessionError
                /\ answered'.transport = NoTransport
                /\ answered'.gets = 0
                /\ (answered = NoExchange =>
                      /\ transports' = transports
                      /\ tobj' = tobj
                      /\ issued' = issued
                      /\ pending' = pending) ]_vars

\* A tools/call without identifier was rejected while a session was open and a request
\* was in progress
C1_Witness ==
    /\ answered.verb = "POST" /\ answered.sid = NoHeader /\ answered.method = "tools/call"
    /\ answered.resp = NoSessionError
    /\ DOMAIN transports # {}
    /\ pending # EmptyBag

\* C2: a POST /mcp whose session identifier is not a key of the map (never issued, or
\* closed) is answered with the SessionNotFound error in its first segment, whatever
\* its method: it is never suspended (no session is created for it, no transport is
\* handed the frame), and the step leaves the map, the transports and the suspended
\* requests as they were.
C2_UnknownSessionRejected ==
    [][ /\ \A r \in BagToSet(pending') :
              (Added(r) /\ r.verb = "POST" /\ Truthy(r.sid)) => MapHas(transports, r.sid)
        /\ \A sid \in IDs :
              (AnsweredAtEntry("POST", sid) /\ ~MapHas(transports, sid))
                => /\ answered'.resp = SessionNotFoundError
                   /\ answered'.transport = NoTransport
                   /\ answered'.newSessionId = NoHeader
                   /\ transports' = transports
                   /\ tobj' = tobj
                   /\ issued' = issued
                   /\ pending' = pending ]_vars

\* An initialize carrying the identifier of a session that has been closed was rejected
C2_Witness ==
    /\ answered.verb = "POST" /\ answered.method = "initialize"
    /\ answered.sid \in removed
    /\ answered.resp = SessionNotFoundError

\* C3: an initialize POST without identifier allocates an identifier that is not a key
\* of the map and constructs a new transport that generates that identifier, without
\* touching the map; when connect resolves, the same request adds exactly the entry
\* identifier -> that transport and dispatches the frame to that transport in the same
\* turn, so a creating request whose dispatch has started always has its identifier
\* registered (unless a DELETE has removed it since), and the step that ends the
\* request adds nothing more.
C3_InitializeCreatesSession ==
    [][ /\ \A r \in BagToSet(pending') :
              (Added(r) /\ Creating(r)) =>
                 \/ /\ r.pc = "connecting"
                    /\ r.newSessionId \in IDs
                    /\ ~MapHas(transports, r.newSessionId)
                    /\ r.transport = Len(tobj) + 1
                    /\ Len(tobj') = Len(tobj) + 1
                    /\ tobj'[r.transport].sid = r.newSessionId
                    /\ tobj'[r.transport].closeCalls = 0
                    /\ transports' = transports
                 \/ /\ r.pc = "handling"
                    /\ \E q \in Suspended :
                          /\ q.pc = "connecting"
                          /\ q.newSessionId = r.newSessionId
                          /\ q.transport = r.transport
                    /\ ~MapHas(transports, r.newSessionId)
                    /\ transports' = MapSet(transports, r.newSessionId, r.transport)
                    /\ Cardinality(DOMAIN transports') = Cardinality(DOMAIN transports) + 1
                    /\ tobj[r.transport].sid = r.newSessionId
                    /\ tobj' = tobj
        /\ \A r \in Exchanges' :
              (Creating(r) /\ (r.pc = "handling" \/ (r.pc = "done" /\ r.at = "handling")))
                => \/ r.newSessionId \in removed'
                   \/ /\ MapHas(transports', r.newSessionId)
                      /\ transports'[r.newSessionId] = r.transport
        /\ (answered = NoExchange /\ Creating(answered') /\ answered'.at = "handling")
              => transports' = transports ]_vars

\* An initialize without identifier has been answered by the transport it created, and
\* its identifier is registered to that transport
C3_Witness ==
    /\ Creating(answered) /\ answered.resp = ByTransport /\ answered.at = "handling"
    /\ MapHas(transports, answered.newSessionId)
    /\ transports[answered.newSessionId] = answered.transport
    /\ tobj[answered.transport].sid = answered.newSessionId

\* C4: no identifier is issued twice: the transports constructed so far, open or closed,
\* all generate different identifiers; the creating requests in progress hold different
\* identifiers; and the keys of the map are bound to different transports, each key
\* to the transport that generates it.
C4_DistinctIdentifiers ==
    /\ \A t1, t2 \in DOMAIN tobj : t1 # t2 => tobj[t1].sid # tobj[t2].sid
    /\ \A r \in Suspended : Creating(r) => CopiesIn(r, pending) = 1
    /\ \A r1, r2 \in Exchanges :
          (Creating(r1) /\ Creating(r2) /\ r1 # r2
             /\ r1.newSessionId # NoHeader /\ r2.newSessionId # NoHeader)
            => r1.newSessionId # r2.newSessionId
    /\ \A k1, k2 \in DOMAIN transports : k1 # k2 => transports[k1] # transports[k2]
    /\ \A k \in DOMAIN transports : tobj[transports[k]].sid = k

\* Two sessions have been created, the first has been closed, the second is open
C4_Witness ==
    /\ Len(tobj) = 2
    /\ tobj[1].sid \in removed
    /\ MapHas(transports, tobj[2].sid)

\* C5: a POST whose identifier is a key of the map is suspended in handleRequest on
\* exactly the transport registered under that identifier, whatever its method; the
\* step constructs no transport, issues no identifier and leaves the map alone; such
\* a POST is never answered in its first segment.
C5_KnownSessionReusesTransport ==
    [][ /\ \A r \in BagToSet(pending') :
              (Added(r) /\ r.verb = "POST" /\ Truthy(r.sid))
                => /\ MapHas(transports, r.sid)
                   /\ r.pc = "handling"
                   /\ r.transport = transports[r.sid]
                   /\ r.newSessionId = NoHeader
                   /\ transports' = transports
                   /\ tobj' = tobj
                   /\ issued' = issued
        /\ \A sid \in IDs : AnsweredAtEntry("POST", sid) => ~MapHas(transports, sid) ]_vars

\* With two sessions open, an initialize carrying the second one's identifier is in
\* flight on the second one's transport
C5_Witness ==
    /\ Len(tobj) = 2
    /\ Cardinality(DOMAIN transports) = 2
    /\ \E r \in Suspended :
          /\ r.verb = "POST" /\ r.method = "initialize" /\ r.pc = "handling"
          /\ r.sid = tobj[2].sid
          /\ r.transport = 2

\* C6: a DELETE for a key of the map calls close on the transport registered under it
\* and, once close has resolved, removes exactly that mapping and answers 204; a
\* DELETE without identifier or with one that is not a key (never issued, or closed
\* before) is answered 204 in its first segment, leaves the map and the suspended
\* requests as they were and calls close on no transport.
C6_CloseIdempotent ==
    [][ /\ \A r \in BagToSet(pending') :
              (Added(r) /\ r.verb = "DELETE")
                => /\ Truthy(r.sid) /\ MapHas(transports, r.sid)
                   /\ r.pc = "closing"
                   /\ r.transport = transports[r.sid]
                   /\ tobj' = [tobj EXCEPT ![r.transport].closeCalls =
                                                CountClose(tobj[r.transport].closeCalls)]
                   /\ transports' = transports
        /\ \A sid \in Headers :
              AnsweredAtEntry("DELETE", sid)
                => /\ ~(Truthy(sid) /\ MapHas(transports, sid))
                   /\ answered'.resp = NoContent
                   /\ transports' = transports
                   /\ tobj' = tobj
                   /\ pending' = pending
        /\ (answered = NoExchange /\ answered'.verb = "DELETE" /\ answered'.at = "closing"
               /\ answered'.resp = NoContent)
              => /\ ~MapHas(transports', answered'.sid)
                 /\ transports' = MapDelete(transports, answered'.sid)
                 /\ tobj' = tobj ]_vars

\* A second DELETE for a session that an earlier DELETE has closed was answered 204
\* without calling close
C6_Witness ==
    /\ answered.verb = "DELETE" /\ answered.at = "entry"
    /\ answered.sid \in removed
    /\ answered.resp = NoContent
    /\ answered.transport = NoTransport

\* C7 as stated: no transport ever has two handleRequest calls in flight at once.
C7_AtMostOneInFlight == \A t \in DOMAIN tobj : InFlight(t) <= 1

\* C7, amended: the registry does not serialise the frames of a session.  Every
\* request makes one handleRequest call, on the transport that generates the
\* identifier the request carries (or allocated), so the calls in flight on a
\* transport are those of the suspended requests that stand for its identifier, one
\* each, and there can be as many as requests are suspended.
C7_OneDispatchPerRequest ==
    /\ \A r \in Suspended :
          r.pc = "handling"
            => /\ r.transport \in DOMAIN tobj
               /\ tobj[r.transport].sid = IdentifierOf(r)
    /\ \A t \in DOMAIN tobj :
          LET H == {r \in Suspended : r.pc = "handling" /\ IdentifierOf(r) = tobj[t].sid}
          IN  InFlight(t) = BagCardinality([r \in H |-> pending[r]])

\* Two frames of one session are in flight on its transport at once
C7_Witness ==
    \E t \in DOMAIN tobj :
        /\ InFlight(t) = 2
        /\ \E r \in Suspended : r.verb = "POST" /\ r.sid = tobj[t].sid /\ r.transport = t

\* C8: initialize requests interleaved at await mcp.connect leave the map whole: its
\* keys are exactly the identifiers issued to initialize requests, less those still
\* waiting for connect, those whose connect rejected and those a DELETE removed; one
\* transport was constructed per identifier issued; every key is bound to the
\* transport constructed with it, which is the transport of the request that
\* allocated it.
C8_ConcurrentInitializeKeepsEntries ==
    /\ DOMAIN transports = issued \ (ConnectingIds \cup failed \cup removed)
    /\ Len(tobj) = Cardinality(issued)
    /\ \A k \in DOMAIN transports : tobj[transports[k]].sid = k
    /\ \A r \in Exchanges :
          (Creating(r) /\ r.newSessionId # NoHeader)
            => /\ tobj[r.transport].sid = r.newSessionId
               /\ MapHas(transports, r.newSessionId) => transports[r.newSessionId] = r.transport

\* The second of two initialize requests is registered, and its frame is in flight,
\* while the first is still waiting for connect
C8_Witness ==
    /\ \E r \in Suspended : Creating(r) /\ r.pc = "connecting" /\ r.newSessionId = tobj[1].sid
    /\ \E r \in Suspended : Creating(r) /\ r.pc = "handling" /\ r.newSessionId = tobj[2].sid
    /\ DOMAIN transports = {tobj[2].sid}

\* C9: the map changes only in two kinds of step: an initialize resuming after connect,
\* which adds its own identifier (not a key before), and a DELETE resuming after
\* close, which removes the identifier it carried.  Every other step (a request of
\* any kind answered in its first segment, a frame dispatched to a known session, a
\* GET, a health probe, a handleRequest that ends or faults, a connect or a close that
\* rejects) leaves the map as it was, and no step changes the transport of a key.
C9_MapMutatedOnlyByInitializeAndClose ==
    [][ /\ transports' # transports
              => \/ \E r \in Suspended :
                       /\ Creating(r) /\ r.pc = "connecting"
                       /\ ~MapHas(transports, r.newSessionId)
                       /\ transports' = MapSet(transports, r.newSessionId, r.transport)
                       /\ \E q \in BagToSet(pending') :
                             /\ Added(q) /\ q.pc = "handling"
                             /\ q.newSessionId = r.newSessionId
                 \/ \E r \in Suspended :
                       /\ r.verb = "DELETE" /\ r.pc = "closing"
                       /\ MapHas(transports, r.sid)
                       /\ transports' = MapDelete(transports, r.sid)
                       /\ answered'.verb = "DELETE" /\ answered'.at = "closing"
                       /\ answered'.sid = r.sid
        /\ \A k \in (DOMAIN transports) \cap (DOMAIN transports') :
              transports'[k] = transports[k]
        /\ (answered = NoExchange /\ answered' # NoExchange
               /\ ~(answered'.verb = "DELETE" /\ answered'.at = "closing"))
              => transports' = transports
        /\ \A q \in BagToSet(pending') :
              (Added(q) /\ ~(Creating(q) /\ q.pc = "handling")) => transports' = transports ]_vars

\* A GET on the one open session was handled after another session was created and
\* closed
C9_Witness ==
    /\ answered.verb = "GET" /\ answered.resp = ByTransport
    /\ removed # {}
    /\ Cardinality(DOMAIN transports) = 1
    /\ MapHas(transports, answered.sid)

\* C10: a key stays in the map, bound to the same transport, in every step except the
\* one in which a DELETE carrying that key resumes after close; so a POST carrying a
\* key is never answered in its first segment (never NoSession, never
\* SessionNotFound) but dispatched to the key's transport, and when it is a
\* get_day_context call with valid arguments and no DELETE has called close on that
\* transport, a backend GET is issued for it.
C10_NoEviction ==
    [][ /\ \A k \in DOMAIN transports :
              \/ MapHas(transports', k) /\ transports'[k] = transports[k]
              \/ /\ answered = NoExchange
                 /\ answered'.verb = "DELETE" /\ answered'.at = "closing"
                 /\ answered'.sid = k
        /\ \A k \in DOMAIN transports : ~AnsweredAtEntry("POST", k)
        /\ (answered = NoExchange /\ answered'.verb = "POST"
               /\ answered'.resp \in {NoSessionError, SessionNotFoundError})
              => /\ answered'.at = "entry"
                 /\ ~MapHas(transports, answered'.sid)
        /\ \A r \in BagToSet(pending') :
              (Added(r) /\ r.verb = "POST" /\ Truthy(r.sid))
                => /\ MapHas(transports, r.sid)
                   /\ r.transport = transports[r.sid]
                   /\ (r.method = "tools/call" /\ ValidArgs(r.args)
                          /\ tobj[r.transport].closeCalls = 0) => r.gets = 1 ]_vars

\* A get_day_context call on the first session reached the backend and was answered
\* after a second session had been created and closed
C10_Witness ==
    /\ answered.verb = "POST" /\ answered.method = "tools/call"
    /\ answered.resp = ByTransport /\ answered.gets = 1
    /\ Len(tobj) = 2
    /\ answered.sid = tobj[1].sid
    /\ MapHas(transports, answered.sid)
    /\ tobj[2].sid \in removed

\* C11: every request that ended was answered by its handler: when mcp.connect,
\* transport.handleRequest or transport.close rejects, the handler catches the
\* rejection and the request still has its response; no rejection leaves a handler
\* with nothing written.
C11_FaultsAnswered == answered # NoExchange => answered.resp # Unhandled

\* C12: when the axios.get of a tool call at an MCP server (sessioned or stateless)
\* rejects, whatever the failure (a backend status outside 2xx, no response, an error
\* before the request was sent), the handler returns a tool result, never a protocol
\* error: one text item whose text is
\* {"error":"backend_request_failed","status":S,"details":D} with S the backend's
\* status when the backend answered and null when it did not.
C12_BackendFailureIsToolOutput ==
    (result.pc = "done" /\ result.variant \in McpVariants /\ result.gets > 0
        /\ ~result.reply.ok)
      => /\ result.resp.kind = "result"
         /\ Len(result.resp.content) = 1
         /\ result.resp.content[1].type = "text"
         /\ LET text == result.resp.content[1].text
            IN  /\ Len(text) >= 21
                /\ SubSeq(text, 1, 13) =
                      <<"{", "\"", "error", "\"", ":", "\"", "backend_request_failed", "\"",
                        ",", "\"", "status", "\"", ":">>
                /\ text[14] = IF result.reply.response.t = "response"
                              THEN ToString(result.reply.response.status.whole)
                              ELSE "null"
                /\ SubSeq(text, 15, 19) = <<",", "\"", "details", "\"", ":">>
                /\ text[Len(text)] = "}"

\* A call at the sessioned server has returned the descriptor of a 404 from the
\* backend while another call was waiting for the backend
C12_Witness ==
    /\ result.variant = "sessioned" /\ result.pc = "done"
    /\ result.reply.response = HttpResponse(404, Obj(<<Member("detail", Str(<<"User not found">>))>>))
    /\ result.resp.kind = "result"
    /\ result.resp.content[1].text[14] = "404"
    /\ calls # EmptyBag

\* C13: a get_day_context call whose day is anything but a string of the form
\* YYYY-MM-DD (here: anything but 2024-01-15: a date in another form, a date with a
\* character too many, a number, no day at all) never reaches the backend, at the MCP
\* servers and at the raw server alike: it is never waiting for axios.get, no GET was
\* issued for it, and it ends rejected (invalid params at an MCP server, HTTP 400 at
\* the raw server).
C13_BadDayRejected ==
    \A c \in Calls :
        (IsToolCall(c) /\ ArgsOf(c).day # Str(GoodDay)) => RejectedAsInvalid(c)

\* The raw server has answered 400 to a call whose day has one character too many and
\* whose user_id is fine, while another call was waiting for the backend
C13_Witness ==
    /\ result.variant = "raw" /\ IsToolCall(result)
    /\ ArgsOf(result) = Input(Num(1, 0), Str(LongDay))
    /\ result.resp = Json(400, ErrorBody("Invalid date format. Expected YYYY-MM-DD"))
    /\ calls # EmptyBag

\* C14: a get_day_context call whose user_id is not an integer (here: anything but 1
\* or 2: the number 1.5, the string "1", no user_id at all) never reaches the
\* backend, at every server, the raw one included: no GET is issued for it and it
\* ends rejected.
C14_NonIntegerUserRejected ==
    \A c \in Calls :
        (IsToolCall(c) /\ ArgsOf(c).user_id \notin {Num(1, 0), Num(2, 0)})
          => RejectedAsInvalid(c)

\* C15: when the axios.get of a tool call at an MCP server resolves, the tool result
\* is one text item, and its text is the JSON text of the body the backend returned
\* for this call's own GET: the day summary of the user_id and the day the call
\* carried, with the calories the backend sent, whatever other calls are waiting for
\* the backend at the time.
C15_SuccessBodyPassedThrough ==
    (result.pc = "done" /\ result.variant \in McpVariants /\ result.reply.ok)
      => /\ result.request.user_id \in {Num(1, 0), Num(2, 0)}
         /\ result.request.day = Str(GoodDay)
         /\ result.resp.kind = "result"
         /\ Len(result.resp.content) = 1
         /\ result.resp.content[1].type = "text"
         /\ \E kcal \in Calories :
               /\ result.reply.response.data = DaySummary(result.url, kcal)
               /\ result.resp.content[1].text =
                     <<"{", "\"", "user_id", "\"", ":", "\"",
                       ToString(result.request.user_id.whole), "\"", ",",
                       "\"", "date", "\"", ":", "\"">>
                     \o result.request.day.chars
                     \o <<"\"", ",", "\"", "total_calories", "\"", ":", ToString(kcal), ",",
                          "\"", "meals", "\"", ":", "null", "}">>

\* The call for user 2 has returned user 2's summary while a call for user 1, issued
\* at the same server, was still waiting for the backend
C15_Witness ==
    /\ result.pc = "done" /\ result.variant = "sessioned" /\ result.reply.ok
    /\ result.request.user_id = Num(2, 0)
    /\ result.resp.kind = "result"
    /\ result.resp.content[1].text[7] = "2"
    /\ \E c \in InCall : c.variant = "sessioned" /\ c.request.user_id = Num(1, 0)

\* C16: one axios.get per accepted call and none per rejected call, at the MCP servers
\* and at the raw server: a call waiting for the backend has made exactly one; a call
\* that ended after axios.get settled (with a body, a backend status, no response or
\* a setup error) has still made exactly one, so nothing was retried; a call that
\* ended without waiting (invalid params, HTTP 400, the 500 of the outer catch) has
\* made none; and a call with an integer user_id and a well-formed day always makes
\* its one.
C16_OneGetPerAcceptedCall ==
    \A c \in Calls :
        /\ c.pc \in {"awaiting", "done"}
        /\ c.pc = "awaiting" => c.gets = 1 /\ c.reply = NoReply
        /\ (c.pc = "done" /\ c.reply # NoReply) => c.gets = 1
        /\ (c.pc = "done" /\ c.reply = NoReply)
              => /\ c.gets = 0
                 /\ \/ c.resp = InvalidParams
                    \/ c.resp.kind = "http" /\ c.resp.status \in {400, 500}
        /\ (IsToolCall(c) /\ ArgsOf(c).user_id \in {Num(1, 0), Num(2, 0)}
               /\ ArgsOf(c).day = Str(GoodDay)) => c.gets = 1

\* A raw call has ended 502 (the backend never answered) after its single GET, while
\* a tool call at the sessioned server was waiting for its own
C16_Witness ==
    /\ result.variant = "raw" /\ result.pc = "done"
    /\ result.resp.kind = "http" /\ result.resp.status = 502
    /\ result.gets = 1
    /\ \E c \in InCall : c.variant = "sessioned" /\ c.gets = 1

\* C17: every request to the raw server ends with exactly one response, and its status
\* follows the case: 200 with {tool, output: the backend's body} when the backend
\* answered 2xx; the backend's own status when it answered outside 2xx; 502 when it
\* did not answer; 500 when the request could not be set up or when the handler
\* faulted (no req.body to destructure); 400, without any backend call, when the tool
\* is missing or unknown or the input is invalid.  A request still waiting for the
\* backend has no response yet.
C17_RawStatusMapping ==
    /\ \A c \in InCall : c.variant = "raw" => c.resp = NoResp
    /\ (result.variant = "raw" /\ result.pc = "done")
         => LET e == result.reply
                body == result.request
                Malformed ==
                    \/ body.tool \in {Undefined, Str(<<"other_tool">>)}
                    \/ body.input = Undefined
                    \/ body.input.user_id \notin {Num(1, 0), Num(2, 0), Num(1, 5)}
                    \/ body.input.day # Str(GoodDay)
            IN  /\ result.resp.kind = "http"
                /\ result.resp.status \in {200, 400, 404, 500, 502, 503}
                /\ result.resp.status = 200 <=> e.ok
                /\ e.ok => result.resp.json =
                              Obj(<<Member("tool", Str(<<"get_day_context">>)),
                                    Member("output", e.response.data)>>)
                /\ (result.gets = 1 /\ ~e.ok /\ e.response # Undefined)
                      => result.resp.status = e.response.status.whole
                /\ (result.gets = 1 /\ ~e.ok /\ e.response = Undefined /\ e.request)
                      => result.resp.status = 502
                /\ (result.gets = 1 /\ ~e.ok /\ e.response = Undefined /\ ~e.request)
                      => result.resp.status = 500
                /\ (result.gets = 0 /\ body = Undefined) => result.resp.status = 500
                /\ (result.gets = 0 /\ body # Undefined)
                      => result.resp.status = 400 /\ Malformed
                /\ (body # Undefined /\ Malformed)
                      => result.resp.status = 400 /\ result.gets = 0

\* The raw server has relayed the backend's 404 for one call while another raw call
\* was waiting for the backend
C17_Witness ==
    /\ result.variant = "raw" /\ result.pc = "done"
    /\ result.resp.kind = "http" /\ result.resp.status = 404
    /\ result.reply.response.status = Num(404, 0)
    /\ \E c \in InCall : c.variant = "raw"

\* C18: no frame is dispatched to a transport on which close has been called: every
\* step that starts a handleRequest call (a POST or a GET resolving its identifier,
\* an initialize resuming after connect) starts it on a transport that no DELETE has
\* called close on.
C18_NoDispatchAfterCloseStarted ==
    [][ \A r \in BagToSet(pending') :
            (Added(r) /\ r.pc = "handling") => tobj[r.transport].closeCalls = 0 ]_vars

\* C19: close is called at most once on every transport, however the DELETEs for its
\* identifier interleave.
C19_ClosedAtMostOnce == \A t \in DOMAIN tobj : tobj[t].closeCalls <= 1

\* C20: an initialize that was answered with the internal-error response (its connect
\* rejected, or the dispatch of its frame rejected) has left no entry in the map for
\* the identifier it allocated.
C20_FailedInitializeLeavesNoSession ==
    (Creating(answered) /\ answered.pc = "done" /\ answered.resp = InternalError)
      => ~MapHas(transports, answered.newSessionId)

\* C21: a GET /mcp without identifier, or with one that is not a key of the map, is
\* answered 400 "Invalid or missing session" in its first segment, and that step
\* leaves the map, the transports, the issued identifiers and the suspended requests
\* as they were; a GET whose identifier is a key is never answered in its first
\* segment but suspended in handleRequest on exactly the transport registered under
\* that key; and no step of a GET (its first segment, the end or the fault of its
\* handleRequest) adds, removes or rebinds a key, constructs a transport or calls
\* close on one.
C21_GetReusesOrRejects ==
    [][ /\ \A sid \in Headers :
              AnsweredAtEntry("GET", sid)
                => /\ ~Truthy(sid) \/ ~MapHas(transports, sid)
                   /\ answered'.resp = InvalidSessionError
                   /\ answered'.transport = NoTransport
                   /\ pending' = pending
        /\ \A r \in BagToSet(pending') :
              (Added(r) /\ r.verb = "GET")
                => /\ Truthy(r.sid) /\ MapHas(transports, r.sid)
                   /\ r.pc = "handling"
                   /\ r.transport = transports[r.sid]
                   /\ tobj[r.transport].sid = r.sid
                   /\ r.newSessionId = NoHeader
                   /\ answered' = answered
        /\ (answered = NoExchange /\ answered'.verb = "GET")
              => /\ answered'.resp = InvalidSessionError <=> answered'.at = "entry"
                 /\ answered'.at \in {"entry", "handling"}
        /\ (\/ \E r \in BagToSet(pending') : Added(r) /\ r.verb = "GET"
            \/ answered = NoExchange /\ answered'.verb = "GET")
              => /\ transports' = transports
                 /\ tobj' = tobj
                 /\ issued' = issued
                 /\ removed' = removed ]_vars

\* A GET carrying the identifier of a session that a DELETE has closed was refused
\* while a GET on the session still open was in flight on that session's transport
C21_Witness ==
    /\ answered.verb = "GET" /\ answered.at = "entry"
    /\ answered.sid \in removed
    /\ answered.resp = InvalidSessionError
    /\ \E r \in Suspended :
          /\ r.verb = "GET" /\ r.pc = "handling"
          /\ MapHas(transports, r.sid)
          /\ r.transport = transports[r.sid]
====
